---- MODULE Spec2Model ----
(***************************************************************************)
(* The analysis pipeline of deeppoint-ai: the job table of JobManager, the *)
(* pipeline task executeJob with one action per synchronous run between    *)
(* two suspension points (JavaScript runs each such block to completion),  *)
(* the scraper services behind DataSourceFactory, and the clustering       *)
(* gateway with its keyword fallback.                                      *)
(***************************************************************************)
EXTENDS Integers, Sequences, FiniteSets, TLC

(***************************************************************************)
(* Bounds of the model.                                                    *)
(***************************************************************************)
MaxJobs == 2
MaxKeywords == 2
MaxTime == 1

JobIds == 1..MaxJobs

(***************************************************************************)
(* Optional fields of a record (results?, error?, ...): absent or present. *)
(***************************************************************************)
None == <<>>
Some(v) == <<v>>
IsSet(o) == o # <<>>
Get(o) == o[1]

(***************************************************************************)
(* Texts.  A text is a code; its length, its trimmed form and the first    *)
(* fallback keyword it contains are what the code inspects.  0 is ''.      *)
(*   1, 3: long titles containing the first fallback keyword               *)
(*   2   : long title containing the second fallback keyword               *)
(*   4   : title of 7 characters, no keyword                               *)
(*   5, 6: comments of 8 characters, no keyword                            *)
(*   7   : a text of 3 characters                                          *)
(*   8   : text 1 with surrounding blanks                                  *)
(***************************************************************************)
Texts == 0..8

TextLen(t) ==
  CASE t = 0 -> 0
    [] t \in {1, 2, 3} -> 12
    [] t = 4 -> 7
    [] t \in {5, 6} -> 8
    [] t = 7 -> 3
    [] t = 8 -> 14

Trim(t) == IF t = 8 THEN 1 ELSE t

\* the indexes in the fallback vocabulary of the keywords the text includes
Keywords(t) ==
  CASE t \in {1, 8} -> {1}
    [] t = 3 -> {1, 2}
    [] t = 2 -> {2}
    [] OTHER -> {}

\* index in the fallback vocabulary of the first keyword the text includes, 0: none
FirstKeyword(t) ==
  IF Keywords(t) = {} THEN 0
  ELSE CHOOSE k \in Keywords(t) : \A m \in Keywords(t) : k <= m

\* the set of words tokenize leaves of the text
Tokens(t) ==
  CASE t \in {1, 3, 8} -> {1, 2}
    [] t = 2 -> {3}
    [] t = 5 -> {4}
    [] t = 6 -> {4, 5}
    [] OTHER -> {}

(***************************************************************************)
(* Sequence helpers: indexOf/Set deduplication, map, spread-concatenation.  *)
(***************************************************************************)
\* the indices of a Set<number> filled in ascending order
RECURSIVE Ascending(_)
Ascending(S) ==
  IF S = {} THEN <<>>
  ELSE LET m == CHOOSE x \in S : \A y \in S : x <= y
       IN <<m>> \o Ascending(S \ {m})

RECURSIVE Unique(_)
Unique(s) ==
  IF s = <<>> THEN <<>>
  ELSE LET r == Unique(SubSeq(s, 1, Len(s) - 1))
           x == s[Len(s)]
       IN IF \E i \in 1..Len(r) : r[i] = x THEN r ELSE Append(r, x)

RECURSIVE Flatten(_)
Flatten(ss) == IF ss = <<>> THEN <<>> ELSE Head(ss) \o Flatten(Tail(ss))

Range(s) == {s[i] : i \in 1..Len(s)}

(***************************************************************************)
(* Data sources.  createDataSource picks the adapter; only some adapters   *)
(* have checkAvailability / searchWithComments.                            *)
(***************************************************************************)
DataSourceType == {"xiaohongshu", "douyin", "douyin_new"}

HasCheckAvailability(type) == type \in {"xiaohongshu", "douyin_new"}

HasSearchWithComments(type) == type \in {"douyin", "douyin_new"}

(***************************************************************************)
(* What a scraper process hands back for one keyword: the parsed videos    *)
(* (title, description; 0 is the empty string) and comment texts.  The     *)
(* sets below are the outputs the model lets the external scripts produce. *)
(***************************************************************************)
Video(t, d) == [title |-> t, description |-> d]

VideoOutputs ==
  { <<>>,
    <<Video(8, 0), Video(3, 0)>>,
    <<Video(1, 0), Video(2, 0)>>,
    <<Video(4, 0)>> }

CommentOutputs == { <<>>, <<5, 6>> }

NoteTextOutputs == { <<>>, <<8, 3, 7>>, <<1, 2>> }

\* the text clean-up shared by XHSService and DouyinService
CleanTexts(rawTexts) ==
  LET kept == SelectSeq(rawTexts, LAMBDA t : t # 0 /\ TextLen(Trim(t)) > 5)
  IN Unique([i \in 1..Len(kept) |-> Trim(kept[i])])

\* [...new Set(rawTexts)].filter(t => t.trim().length > 5) of DouyinNewService
UniqueTexts(rawTexts) ==
  SelectSeq(Unique(rawTexts), LAMBDA t : TextLen(Trim(t)) > 5)

\* XHSService.searchNotes behind XHSServiceAdapter.searchAndFetch; noteTexts are
\* the comment contents parsed from the notes, pushed when longer than 5
XHSSearchAndFetch(noteTexts) ==
  [ rawTexts |-> CleanTexts(SelectSeq(noteTexts, LAMBDA t : t # 0 /\ TextLen(t) > 5)),
    videos |-> None, allComments |-> None, videoCount |-> 0, commentCount |-> 0 ]

\* DouyinService.searchVideos behind DouyinServiceAdapter.searchAndFetch
DouyinSearchAndFetch(videos) ==
  LET long == SelectSeq(videos, LAMBDA v : v.title # 0 /\ TextLen(v.title) > 10)
      titles == [i \in 1..Len(long) |-> long[i].title]
  IN [ rawTexts |-> CleanTexts(titles),
       videos |-> Some(videos), allComments |-> None,
       videoCount |-> 0, commentCount |-> 0 ]

\* the title and description pushes of one video, in order
VideoTextPushes(v, minTitle, descNotTitle) ==
  (IF v.title # 0 /\ TextLen(v.title) > minTitle THEN <<v.title>> ELSE <<>>)
  \o (IF v.description # 0 /\ TextLen(v.description) > 10
         /\ (descNotTitle => v.description # v.title)
      THEN <<v.description>> ELSE <<>>)

CommentTextPushes(comments) ==
  SelectSeq(comments, LAMBDA c : c # 0 /\ TextLen(c) > 5)

\* DouyinService.searchWithComments
DouyinSearchWithComments(videos, comments) ==
  LET texts == Flatten([i \in 1..Len(videos) |-> VideoTextPushes(videos[i], 5, FALSE)])
               \o CommentTextPushes(comments)
  IN [ rawTexts |-> CleanTexts(texts),
       videos |-> Some(videos), allComments |-> Some(comments),
       videoCount |-> Len(videos), commentCount |-> Len(comments) ]

\* DouyinNewService.mapToRawVideoData: title: video.title || video.desc
MapToRawVideoData(v) ==
  Video(IF v.title # 0 THEN v.title ELSE v.description, v.description)

\* DouyinNewService.searchVideos behind DouyinNewServiceAdapter.searchAndFetch
DouyinNewSearchAndFetch(videos) ==
  LET texts == Flatten([i \in 1..Len(videos) |-> VideoTextPushes(videos[i], 5, TRUE)])
  IN [ rawTexts |-> UniqueTexts(texts),
       videos |-> Some([i \in 1..Len(videos) |-> MapToRawVideoData(videos[i])]), allComments |-> None,
       videoCount |-> 0, commentCount |-> 0 ]

\* DouyinNewService.searchWithComments
DouyinNewSearchWithComments(videos, comments) ==
  LET texts == Flatten([i \in 1..Len(videos) |-> VideoTextPushes(videos[i], 5, TRUE)])
               \o CommentTextPushes(comments)
  IN [ rawTexts |-> UniqueTexts(texts),
       videos |-> Some([i \in 1..Len(videos) |-> MapToRawVideoData(videos[i])]),
       allComments |-> Some(comments),
       videoCount |-> Len(videos), commentCount |-> Len(comments) ]

\* the result of the fetch executeJob awaits for one keyword
FetchResult(type, deepCrawl, videos, comments, noteTexts) ==
  IF deepCrawl /\ HasSearchWithComments(type)
  THEN IF type = "douyin" THEN DouyinSearchWithComments(videos, comments)
       ELSE DouyinNewSearchWithComments(videos, comments)
  ELSE CASE type = "xiaohongshu" -> XHSSearchAndFetch(noteTexts)
         [] type = "douyin" -> DouyinSearchAndFetch(videos)
         [] type = "douyin_new" -> DouyinNewSearchAndFetch(videos)

(***************************************************************************)
(* Clustering gateway (ClusteringService, the semantic version).           *)
(***************************************************************************)
MinClusterSize == 2

\* the ways the external clustering process can end
ClusterFailures == {"successFalse", "exitNonZero", "unparsable", "spawnError"}

\* groupings a successful run of the external script may report for texts
ServiceClusterings(texts) ==
  { <<texts>> } \cup
  (IF Len(texts) >= 2 THEN { << <<Head(texts)>>, Tail(texts) >> } ELSE {})

\* one cluster holding every text
OneClustering(texts) == { <<texts>> }

\* what the process can answer: [kind, clusters]
ClusterOutcomes(clusterings) ==
  { [kind |-> "ok", clusters |-> g] : g \in clusterings }
  \cup { [kind |-> "ok", clusters |-> <<>>] }
  \cup { [kind |-> k, clusters |-> <<>>] : k \in ClusterFailures }

\* the ClusteringResult the promise resolves with
clusterTextsWithEmbeddings(texts, outcome) ==
  IF outcome.kind = "ok"
  THEN [success |-> TRUE, clusters |-> outcome.clusters]
  ELSE [success |-> FALSE, clusters |-> <<>>]

\* a fallback that puts a text in the bucket of every keyword it includes
fallbackClusterEveryKeyword(texts, minClusterSize) ==
  IF Len(texts) = 0 THEN <<>>
  ELSE IF Len(texts) < minClusterSize THEN <<texts>>
  ELSE LET keys == Ascending(UNION {Keywords(texts[i]) : i \in 1..Len(texts)})
           buckets == [i \in 1..Len(keys) |->
                         SelectSeq(texts, LAMBDA t : keys[i] \in Keywords(t))]
       IN SelectSeq(buckets, LAMBDA c : Len(c) >= minClusterSize)

\* keyword buckets in Map insertion order, buckets under the minimum dropped
fallbackCluster(texts, minClusterSize) ==
  IF Len(texts) = 0 THEN <<>>
  ELSE IF Len(texts) < minClusterSize THEN <<texts>>
  ELSE LET keys == Unique([i \in 1..Len(texts) |-> FirstKeyword(texts[i])])
           buckets == [i \in 1..Len(keys) |->
                         SelectSeq(texts, LAMBDA t : FirstKeyword(t) = keys[i])]
       IN SelectSeq(buckets, LAMBDA c : Len(c) >= minClusterSize)

clusterTexts(texts, minClusterSize, outcome) ==
  LET result == clusterTextsWithEmbeddings(texts, outcome)
  IN IF ~result.success \/ Len(result.clusters) = 0
     THEN fallbackCluster(texts, minClusterSize)
     ELSE result.clusters

(***************************************************************************)
(* Representative texts.  Scores are kept in tenths.                       *)
(***************************************************************************)
\* number of pain keywords the text includes: comment 6 includes one
PainKeywordCount(t) == IF t = 6 THEN 1 ELSE 0

calculateRepresentativeness(t) ==
  LET n == TextLen(t)
      lengthScore == IF n >= 20 /\ n <= 100 THEN 12
                     ELSE IF n > 200 THEN 7
                     ELSE IF n < 10 THEN 5
                     ELSE 10
  IN lengthScore + 3 * PainKeywordCount(t)

\* a descending sort that puts an element before its equals
RECURSIVE SortByScoreDescUnstable(_)
SortByScoreDescUnstable(s) ==
  IF s = <<>> THEN <<>>
  ELSE LET r == SortByScoreDescUnstable(SubSeq(s, 1, Len(s) - 1))
           x == s[Len(s)]
           k == Cardinality({i \in 1..Len(r) : r[i].score > x.score})
       IN SubSeq(r, 1, k) \o <<x>> \o SubSeq(r, k + 1, Len(r))

\* Array.prototype.sort with (a, b) => b.score - a.score: stable, descending
RECURSIVE SortByScoreDesc(_)
SortByScoreDesc(s) ==
  IF s = <<>> THEN <<>>
  ELSE LET r == SortByScoreDesc(SubSeq(s, 1, Len(s) - 1))
           x == s[Len(s)]
           k == Cardinality({i \in 1..Len(r) : r[i].score >= x.score})
       IN SubSeq(r, 1, k) \o <<x>> \o SubSeq(r, k + 1, Len(r))

Slice(s, n) == SubSeq(s, 1, IF Len(s) < n THEN Len(s) ELSE n)

\* the first maxCount texts of the cluster, unscored
getRepresentativeTextsUnscored(cluster, maxCount) == Slice(cluster, maxCount)

getRepresentativeTexts(cluster, maxCount) ==
  IF Len(cluster) <= maxCount THEN cluster
  ELSE LET scored == [i \in 1..Len(cluster) |->
                        [text |-> cluster[i],
                         score |-> calculateRepresentativeness(cluster[i])]]
           kept == Slice(SortByScoreDesc(scored), maxCount)
       IN [i \in 1..Len(kept) |-> kept[i].text]

(***************************************************************************)
(* Priority scorer.  Every score is an integer number of tenths; the       *)
(* quotients are kept exact and Math.round is floor(x + 1/2).              *)
(***************************************************************************)
Min(a, b) == IF a <= b THEN a ELSE b
Max(a, b) == IF a >= b THEN a ELSE b

\* Math.round(num / den), den > 0
RoundDiv(num, den) == (2 * num + den) \div (2 * den)

\* the value of 0 / 0, which Math.min, Math.round and the arithmetic hand on
\* and which every comparison answers with false
NaN == 0 - 1000000

\* min(5, min(5, ratio * 10) + emotionalIntensity / 5), in tenths over 5 * totalSize.
\* A total size of 0 makes the ratio NaN (0 / 0) or Infinity (x / 0).
calculateDemandIntensity(clusterSize, totalSize, emotionalIntensity) ==
  IF totalSize = 0
  THEN IF clusterSize = 0 THEN NaN
       ELSE RoundDiv(Min(250, 250 + emotionalIntensity), 5)
  ELSE LET den == 5 * totalSize
           sizeScore == Min(50 * den, 500 * clusterSize)
           total == Min(50 * den, sizeScore + emotionalIntensity * totalSize)
       IN RoundDiv(total, den)

\* the ratio is only computed when totalDataSize >= 50
calculateMarketSize(clusterSize, totalDataSize, glmMarketScore) ==
  LET den == IF totalDataSize >= 50 THEN totalDataSize ELSE 1
      ratioScore == Min(50 * den, 20 * den + 150 * clusterSize)
      bonus == IF totalDataSize >= 200 THEN 5
               ELSE IF totalDataSize >= 100 THEN 3 ELSE 0
      dataScore == IF totalDataSize >= 50
                   THEN Min(50 * den, ratioScore + bonus * den)
                   ELSE 25 * den
  IN RoundDiv(4 * dataScore + 6 * glmMarketScore * den, 10 * den)

\* solution names that include one of the three placeholder phrases
Placeholders == {"needs research", "parse failed", "API call failed"}

calculateCompetition(existingSolutions) ==
  LET validCount == Len(SelectSeq(existingSolutions, LAMBDA n : n \notin Placeholders))
  IN CASE validCount = 0 -> 50
       [] validCount = 1 -> 40
       [] validCount = 2 -> 30
       [] validCount = 3 -> 20
       [] OTHER -> 10

calculatePriority(demandIntensity, marketSize, competition) ==
  LET overall == 4 * demandIntensity + 3 * marketSize + 3 * competition  \* x 100
  IN IF NaN \in {demandIntensity, marketSize, competition}
     THEN [ demand_intensity |-> demandIntensity,
            market_size |-> marketSize,
            competition |-> competition,
            overall |-> NaN,
            level |-> "Low" ]
     ELSE [ demand_intensity |-> demandIntensity,
            market_size |-> marketSize,
            competition |-> competition,
            overall |-> RoundDiv(overall, 10),
            level |-> IF overall >= 350 THEN "High"
                      ELSE IF overall >= 250 THEN "Medium" ELSE "Low" ]

scoreCluster(clusterSize, totalDataSize, emotionalIntensity, glmMarketScore, existingSolutions) ==
  calculatePriority(
    calculateDemandIntensity(clusterSize, totalDataSize, emotionalIntensity),
    calculateMarketSize(clusterSize, totalDataSize, glmMarketScore),
    calculateCompetition(existingSolutions))

(***************************************************************************)
(* Deep analysis client (GLMService.analyzeCluster).  A response is a      *)
(* transport failure, an empty message, text that is not JSON, or a JSON   *)
(* object whose fields may be missing or of the wrong type.  Numbers are   *)
(* in tenths; a field that is no number is None.                           *)
(***************************************************************************)
Solutions(kind, names) == [kind |-> kind, names |-> names]

\* the fields of the payload that are filled with parsed.x || placeholder
TextFields ==
  { "one_line_pain", "rationale", "potential_product",
    "surface_pain", "root_causes", "user_scenarios",
    "unmet_needs", "opportunity",
    "core_features", "validation_hypotheses", "first_users", "timeline",
    "estimated_cost" }

\* a parsed JSON object; given: the text fields it holds with a truthy value
Parsed(paid, ei, ms, kr, sols, given) ==
  [ paid_interest |-> paid, emotional_intensity |-> ei, market_size_score |-> ms,
    keyword_relevance |-> kr, existing_solutions |-> sols, given |-> given ]

NoParsed == Parsed("", None, None, None, Solutions("missing", <<>>), {})

\* the answers the model lets the reasoning service give to a job
GLMResponses ==
  { [kind |-> "json",
     parsed |-> Parsed("High", Some(40), Some(40), Some(80),
                       Solutions("array", <<"Notion">>), TextFields)],
    [kind |-> "json",
     parsed |-> Parsed("High", Some(0), Some(0), Some(80),
                       Solutions("other", <<>>), {})],
    [kind |-> "json",
     parsed |-> Parsed("Low", Some(0), Some(0), None, Solutions("array", <<>>), {})],
    [kind |-> "notJSON", parsed |-> NoParsed],
    [kind |-> "transportError", parsed |-> NoParsed] }

\* text: for each text field, whether it holds the answer or a placeholder
Payload(paid, ei, ms, kr, sols, text) ==
  [ paid_interest |-> paid, emotional_intensity |-> ei, market_size_score |-> ms,
    keyword_relevance |-> kr, existing_solutions |-> sols, text |-> text ]

\* the object of the JSON branch with no default filled in
analyzeClusterUnvalidated(response) ==
  LET p == response.parsed
  IN Payload(p.paid_interest,
             IF IsSet(p.emotional_intensity) THEN Get(p.emotional_intensity) ELSE 20,
             IF IsSet(p.market_size_score) THEN Get(p.market_size_score) ELSE 25,
             IF IsSet(p.keyword_relevance) THEN Get(p.keyword_relevance) ELSE 50,
             p.existing_solutions,
             [f \in p.given |-> "answer"])

\* the outer try throws for a transport failure, a body without choices and an
\* empty message; the inner try throws when the text is no JSON object
analyzeCluster(response) ==
  CASE response.kind \in {"transportError", "noChoices", "empty"} ->
         Payload("Medium", 20, 25, 50, Solutions("array", <<"API call failed">>),
                 [f \in TextFields |-> "placeholder"])
    [] response.kind \in {"notJSON", "jsonNull"} ->
         Payload("Medium", 20, 25, 50, Solutions("array", <<"parse failed">>),
                 [f \in TextFields |-> "placeholder"])
    [] response.kind = "json" ->
         LET p == response.parsed
         IN Payload(
              IF p.paid_interest \in {"High", "Medium", "Low"}
              THEN p.paid_interest ELSE "Medium",
              IF IsSet(p.emotional_intensity) THEN Get(p.emotional_intensity) ELSE 20,
              IF IsSet(p.market_size_score)
              THEN Min(50, Max(0, Get(p.market_size_score))) ELSE 25,
              IF IsSet(p.keyword_relevance) THEN Get(p.keyword_relevance) ELSE 50,
              IF p.existing_solutions.kind = "missing"
              THEN Solutions("array", <<"needs research">>)
              ELSE p.existing_solutions,
              [f \in TextFields |->
                 IF f \in p.given \/ (f = "surface_pain" /\ "one_line_pain" \in p.given)
                 THEN "answer" ELSE "placeholder"])

(***************************************************************************)
(* JobManager.  jobs is the key set of the Map; heap holds the Job objects *)
(* (an evicted job's object stays alive while its task holds it); pc and   *)
(* loc are each task's suspension point and its local variables; calls is  *)
(* the history of the external calls each task has issued.  probe holds   *)
(* the last direct call of a service method, with its arguments and result.*)
(***************************************************************************)
VARIABLES jobs, heap, pc, loc, calls, cachedPythonCommand, now, probe

vars == <<jobs, heap, pc, loc, calls, cachedPythonCommand, now, probe>>

Created == DOMAIN heap

getJob(jobId) == IF jobId \in jobs THEN Some(heap[jobId]) ELSE None

NewJob(jobId, keywords, dataSource, deepCrawl, startTime) ==
  [ jobId |-> jobId, status |-> "processing", progress |-> <<"initializing">>,
    keywords |-> keywords, dataSource |-> dataSource, deepCrawl |-> deepCrawl,
    startTime |-> startTime,
    results |-> None, crawlStats |-> None, dataQuality |-> None,
    rawData |-> None, clusteredData |-> None, error |-> None ]

\* the local variables of executeJob when no pipeline step holds any
NoLocals ==
  [ i |-> 0, allRawTexts |-> <<>>, allVideos |-> <<>>, allComments |-> <<>>,
    textToSourceMap |-> [t \in {} |-> ""],
    totalVideoCount |-> 0, totalCommentCount |-> 0,
    videoClusters |-> <<>>, commentClusters |-> <<>>, clusters |-> <<>>,
    results |-> <<>>, hung |-> FALSE ]

\* a task between two suspension points
Task(job, l, at, issued) == [job |-> job, loc |-> l, pc |-> at, calls |-> issued]

\* if (progress) / if (error): an empty string is falsy
updateJobStatus(job, present, status, progress, error) ==
  IF present
  THEN [job EXCEPT !.status = status,
                   !.progress = IF IsSet(progress) /\ Get(progress) # <<>>
                                THEN Get(progress) ELSE @,
                   !.error = IF IsSet(error) /\ Get(error) # "" THEN error ELSE @]
  ELSE job

\* a catch that records the failure and lets the task go on
FailAndContinue(t, present, message) ==
  Task(updateJobStatus(t.job, present, "failed", Some(<<"failed">>), Some(message)),
       t.loc, t.pc, t.calls)

\* the catch of executeJob: every modelled throw is an Error with a message
Fail(t, present, message) ==
  Task(updateJobStatus(t.job, present, "failed", Some(<<"failed">>), Some(message)),
       NoLocals, "done", t.calls)

\* results.reduce((sum, r) => sum + r.size, 0)
RECURSIVE SumOfSizes(_)
SumOfSizes(results) ==
  IF results = <<>> THEN 0 ELSE Head(results).size + SumOfSizes(Tail(results))

\* a quality level whose first step is at 50 inclusive
dataQualityInclusive(totalDataSize, results) ==
  LET clusterCount == Len(results)
  IN [ level |-> IF totalDataSize <= 50 THEN "exploratory"
                 ELSE IF totalDataSize < 200 THEN "preliminary"
                 ELSE "reliable",
       totalDataSize |-> totalDataSize,
       clusterCount |-> clusterCount,
       averageClusterSize |-> IF clusterCount > 0
                              THEN RoundDiv(SumOfSizes(results), clusterCount) ELSE 0 ]

\* step 5: the data quality record of the sorted results
dataQuality(totalDataSize, results) ==
  LET clusterCount == Len(results)
      averageClusterSize == IF clusterCount > 0
                            THEN RoundDiv(SumOfSizes(results), clusterCount) ELSE 0
      qualityLevel == IF totalDataSize < 50 THEN "exploratory"
                      ELSE IF totalDataSize < 200 THEN "preliminary"
                      ELSE "reliable"
  IN [ level |-> qualityLevel,
       totalDataSize |-> totalDataSize,
       clusterCount |-> clusterCount,
       averageClusterSize |-> averageClusterSize ]

\* step 5 and 6: final sort, data quality, completion
Finish(t) ==
  LET found == t.loc.results
      keyed == [i \in 1..Len(found) |->
                 [result |-> found[i],
                  score |-> IF IsSet(found[i].priority_score)
                            THEN Get(found[i].priority_score).overall ELSE 0]]
      sorted == SortByScoreDesc(keyed)
      results == [i \in 1..Len(sorted) |-> sorted[i].result]
  IN Task([t.job EXCEPT
             !.dataQuality = Some(dataQuality(Len(t.loc.allRawTexts), results)),
             !.results = Some(results),
             !.status = "completed",
             !.progress = <<"done">>],
          NoLocals, "done", t.calls)

\* an analysis loop that publishes the results it has so far
AnalyzeLoopPublishing(t) ==
  IF Len(t.loc.results) < Len(t.loc.clusters)
  THEN Task([t.job EXCEPT !.results = Some(t.loc.results)],
            t.loc, "analyze", Append(t.calls, "analyzeCluster"))
  ELSE Finish(t)

\* head of the analysis loop: issue the next analyzeCluster call or finish
AnalyzeLoop(t) ==
  IF Len(t.loc.results) < Len(t.loc.clusters)
  THEN Task(t.job, t.loc, "analyze", Append(t.calls, "analyzeCluster"))
  ELSE Finish(t)

\* merge the cluster lists, build the export groups, enter step 4
AfterClustering(t, present) ==
  LET l == t.loc
      clusters == l.videoClusters \o l.commentClusters
      videoClusterCount == Len(l.videoClusters)
      SourceIs(text, type) ==
        text \in DOMAIN l.textToSourceMap /\ l.textToSourceMap[text] = type
      group(i) ==
        [ clusterId |-> i - 1, size |-> Len(clusters[i]),
          videos |-> IF i <= videoClusterCount
                     THEN SelectSeq(clusters[i], LAMBDA x : SourceIs(x, "video"))
                     ELSE <<>>,
          comments |-> IF i <= videoClusterCount THEN <<>>
                       ELSE SelectSeq(clusters[i], LAMBDA x : SourceIs(x, "comment")) ]
  IN IF Len(clusters) = 0
     THEN Fail(t, present, "no clusters")
     ELSE AnalyzeLoop(
            Task(updateJobStatus(
                   [t.job EXCEPT !.clusteredData =
                      Some([i \in 1..Len(clusters) |-> group(i)])],
                   present, "processing", Some(<<"calling LLM">>), None),
                 [l EXCEPT !.clusters = clusters, !.results = <<>>],
                 t.pc, t.calls))

videoTexts(l) ==
  SelectSeq([i \in 1..Len(l.allVideos) |-> l.allVideos[i].title],
            LAMBDA x : x # 0 /\ TextLen(x) > 0)

\* comment texts taken together with the video titles
commentTextsWithTitles(l) ==
  SelectSeq([i \in 1..Len(l.allVideos) |-> l.allVideos[i].title] \o l.allComments,
            LAMBDA x : x # 0 /\ TextLen(x) > 0)

commentTexts(l) ==
  SelectSeq(l.allComments, LAMBDA x : x # 0 /\ TextLen(x) > 0)

\* step 3.2: cluster the comment texts if there are any
CommentClustering(t, present) ==
  IF Len(commentTexts(t.loc)) > 0
  THEN Task(updateJobStatus(t.job, present, "processing",
                            Some(<<"clustering comments", Len(commentTexts(t.loc))>>),
                            None),
            t.loc, "clusterComments", Append(t.calls, "clusterTexts"))
  ELSE AfterClustering(t, present)

\* step 3 entered without the check of the text buffer
AfterFetchUnchecked(t, present) ==
  LET l == t.loc
      saved == [t.job EXCEPT
                  !.rawData = Some([ videos |-> l.allVideos,
                                     comments |-> l.allComments,
                                     rawTexts |-> l.allRawTexts ])]
      started == updateJobStatus(saved, present, "processing",
                                 Some(<<"clustering">>), None)
  IN IF Len(videoTexts(l)) > 0
     THEN Task(started, l, "clusterVideos", Append(t.calls, "clusterTexts"))
     ELSE CommentClustering(Task(started, l, t.pc, t.calls), present)

\* end of step 2, start of step 3: save the raw data, cluster the video texts
AfterFetch(t, present) ==
  LET l == t.loc
      saved == [t.job EXCEPT
                  !.crawlStats = Some(
                     [ videoCount |-> IF l.totalVideoCount # 0
                                      THEN l.totalVideoCount ELSE Len(l.allVideos),
                       commentCount |-> IF l.totalCommentCount # 0
                                        THEN l.totalCommentCount ELSE Len(l.allComments),
                       textCount |-> Len(l.allRawTexts) ]),
                  !.rawData = Some([ videos |-> l.allVideos,
                                     comments |-> l.allComments,
                                     rawTexts |-> l.allRawTexts ])]
      s == Task(saved, l, t.pc, t.calls)
      started == updateJobStatus(saved, present, "processing",
                                 Some(<<"clustering">>), None)
  IN IF Len(l.allRawTexts) = 0
     THEN Fail(s, present, "no data")
     ELSE IF Len(videoTexts(l)) > 0
     THEN Task(updateJobStatus(started, present, "processing",
                               Some(<<"clustering videos", Len(videoTexts(l))>>), None),
               l, "clusterVideos", Append(t.calls, "clusterTexts"))
     ELSE CommentClustering(Task(started, l, t.pc, t.calls), present)

\* a keyword loop that takes the keywords from the end of the list
FetchLoopBackwards(t, present) ==
  LET keyword == t.job.keywords[Len(t.job.keywords) - t.loc.i]
  IN IF t.loc.i < Len(t.job.keywords)
     THEN IF t.job.deepCrawl /\ HasSearchWithComments(t.job.dataSource)
          THEN Task(updateJobStatus(t.job, present, "processing",
                                    Some(<<"deep fetching", keyword>>), None),
                    t.loc, "fetch", Append(t.calls, "searchWithComments"))
          ELSE Task(updateJobStatus(t.job, present, "processing",
                                    Some(<<"fetching", keyword>>), None),
                    t.loc, "fetch", Append(t.calls, "searchAndFetch"))
     ELSE AfterFetch(t, present)

\* head of the keyword loop: issue the fetch for keyword i or leave the loop
FetchLoop(t, present) ==
  IF t.loc.i < Len(t.job.keywords)
  THEN IF t.job.deepCrawl /\ HasSearchWithComments(t.job.dataSource)
       THEN Task(updateJobStatus(t.job, present, "processing",
                                 Some(<<"deep fetching", t.job.keywords[t.loc.i + 1]>>),
                                 None),
                 t.loc, "fetch", Append(t.calls, "searchWithComments"))
       ELSE Task(updateJobStatus(t.job, present, "processing",
                                 Some(<<"fetching", t.job.keywords[t.loc.i + 1]>>), None),
                 t.loc, "fetch", Append(t.calls, "searchAndFetch"))
  ELSE AfterFetch(t, present)

\* executeJob up to its first await; found: getPythonCommand did not throw
StartJob(job, present, found) ==
  LET t == Task(job, NoLocals, "start", <<>>)
  IN IF ~found
     THEN Fail(t, present, "no python")
     ELSE IF HasCheckAvailability(job.dataSource)
     THEN Task(updateJobStatus(job, present, "processing", Some(<<"validating">>), None),
               NoLocals, "checkAvailability", <<"checkAvailability">>)
     ELSE FetchLoop(t, present)

(***************************************************************************)
(* Actions.                                                                *)
(***************************************************************************)
Init ==
  /\ jobs = {}
  /\ heap = [j \in {} |-> 0]
  /\ pc = [j \in {} |-> ""]
  /\ loc = [j \in {} |-> 0]
  /\ calls = [j \in {} |-> <<>>]
  /\ cachedPythonCommand = FALSE
  /\ now = 0
  /\ probe = [op |-> "none"]

KeywordLists == { [i \in 1..n |-> i] : n \in 1..MaxKeywords }

\* a step that writes its progress through a reference shared by the tasks
ResumeShared(j, t) ==
  /\ heap' = [k \in DOMAIN heap |->
               IF k = j THEN t.job
               ELSE [heap[k] EXCEPT !.progress = t.job.progress]]
  /\ loc' = [loc EXCEPT ![j] = t.loc]
  /\ pc' = [pc EXCEPT ![j] = t.pc]
  /\ calls' = [calls EXCEPT ![j] = t.calls]
  /\ UNCHANGED <<jobs, cachedPythonCommand, now, probe>>

Resume(j, t) ==
  \E r \in {t} :
    /\ heap' = [heap EXCEPT ![j] = r.job]
    /\ loc' = [loc EXCEPT ![j] = r.loc]
    /\ pc' = [pc EXCEPT ![j] = r.pc]
    /\ calls' = [calls EXCEPT ![j] = r.calls]
    /\ UNCHANGED <<jobs, cachedPythonCommand, now, probe>>

Suspended(j, at) == j \in Created /\ pc[j] = at /\ ~loc[j].hung

Current(j) == Task(heap[j], loc[j], pc[j], calls[j])

\* createJob, with the part of executeJob that runs before it returns;
\* detected: detectPythonCommand finds a Python when nothing is cached
CreateJob(keywords, dataSource, deepCrawl, detected) ==
  LET jobId == Cardinality(Created) + 1
      found == cachedPythonCommand \/ detected
      t == StartJob(NewJob(jobId, keywords, dataSource, deepCrawl, now), TRUE, found)
  IN /\ jobs' = jobs \cup {jobId}
     /\ heap' = heap @@ (jobId :> t.job)
     /\ loc' = loc @@ (jobId :> t.loc)
     /\ pc' = pc @@ (jobId :> t.pc)
     /\ calls' = calls @@ (jobId :> t.calls)
     /\ cachedPythonCommand' = found
     /\ UNCHANGED <<now, probe>>

\* an availability check whose answer is not looked at
CheckAvailabilityIgnored(j, isAvailable) ==
  /\ Suspended(j, "checkAvailability")
  /\ Resume(j, FetchLoop(Current(j), j \in jobs))

CheckAvailabilityReturn(j, isAvailable) ==
  /\ Suspended(j, "checkAvailability")
  /\ Resume(j, IF isAvailable
               THEN FetchLoop(Current(j), j \in jobs)
               ELSE Fail(Current(j), j \in jobs, "source unavailable"))

\* the body of the keyword loop after the awaited fetch
Collect(l, result) ==
  LET videos == IF IsSet(result.videos) THEN Get(result.videos) ELSE <<>>
      comments == IF IsSet(result.allComments) THEN Get(result.allComments) ELSE <<>>
      titled == {v.title : v \in {x \in Range(videos) : x.title # 0}}
      said == {c \in Range(comments) : c # 0}
      keys == DOMAIN l.textToSourceMap \cup titled \cup said
  IN [l EXCEPT
        !.i = @ + 1,
        !.allRawTexts = @ \o result.rawTexts,
        !.totalVideoCount = @ + result.videoCount,
        !.totalCommentCount = @ + result.commentCount,
        !.allVideos = @ \o videos,
        !.allComments = @ \o comments,
        !.textToSourceMap =
           [x \in keys |-> IF x \in said THEN "comment"
                           ELSE IF x \in titled THEN "video"
                           ELSE l.textToSourceMap[x]]]

FetchReturn(j, videos, comments, noteTexts) ==
  /\ Suspended(j, "fetch")
  /\ Resume(j, FetchLoop(
       Task(heap[j],
            Collect(loc[j], FetchResult(heap[j].dataSource, heap[j].deepCrawl,
                                        videos, comments, noteTexts)),
            pc[j], calls[j]),
       j \in jobs))

\* what an awaited call of a data source can reject with
ThrownValues ==
  { [kind |-> "Error", message |-> "fetch failed"],
    [kind |-> "Error", message |-> ""],
    [kind |-> "other", message |-> ""] }

\* error instanceof Error ? error.message : 'unknown error'
CatchMessage(error) ==
  IF error.kind = "Error" THEN error.message ELSE "unknown error"

\* the scraper call rejects: script failure, timeout, output that does not parse
FetchThrows(j, error) ==
  /\ Suspended(j, "fetch")
  /\ Resume(j, Fail(Current(j), j \in jobs, CatchMessage(error)))

ClusterVideosReturn(j, outcome) ==
  /\ Suspended(j, "clusterVideos")
  /\ Resume(j, CommentClustering(
       Task(heap[j],
            [loc[j] EXCEPT !.videoClusters =
               clusterTexts(videoTexts(loc[j]), MinClusterSize, outcome)],
            pc[j], calls[j]),
       j \in jobs))

ClusterCommentsReturn(j, outcome) ==
  /\ Suspended(j, "clusterComments")
  /\ Resume(j, AfterClustering(
       Task(heap[j],
            [loc[j] EXCEPT !.commentClusters =
               clusterTexts(commentTexts(loc[j]), MinClusterSize, outcome)],
            pc[j], calls[j]),
       j \in jobs))

RepresentativeCount == 8
ResultTextCount == 5

\* scoreCluster throws a TypeError when existing_solutions is no array of
\* {name, limitation} objects
ScorerThrows(analysis) == analysis.existing_solutions.kind # "array"

\* the ClusterResult of the try branch; x || d takes d for 0
ScoredResult(i, cluster, totalDataSize, analysis) ==
  [ id |-> i + 1,
    size |-> Len(cluster),
    analysis |-> [paid_interest |-> analysis.paid_interest, deep |-> Some(analysis)],
    representative_texts |->
      Slice(getRepresentativeTexts(cluster, RepresentativeCount), ResultTextCount),
    priority_score |-> Some(scoreCluster(
      Len(cluster), totalDataSize,
      IF analysis.emotional_intensity # 0 THEN analysis.emotional_intensity ELSE 20,
      IF analysis.market_size_score # 0 THEN analysis.market_size_score ELSE 25,
      analysis.existing_solutions.names)) ]

\* a catch branch that numbers its result one too low
DefaultResultOffByOne(i, cluster) ==
  [ id |-> i,
    size |-> Len(cluster),
    analysis |-> [paid_interest |-> "Medium", deep |-> None],
    representative_texts |->
      Slice(getRepresentativeTexts(cluster, RepresentativeCount), ResultTextCount),
    priority_score |-> None ]

\* the ClusterResult of the catch branch
DefaultResult(i, cluster) ==
  [ id |-> i + 1,
    size |-> Len(cluster),
    analysis |-> [paid_interest |-> "Medium", deep |-> None],
    representative_texts |->
      Slice(getRepresentativeTexts(cluster, RepresentativeCount), ResultTextCount),
    priority_score |-> None ]

AnalyzeReturn(j, response) ==
  LET l == loc[j]
      i == Len(l.results)
      n == Len(l.clusters)
      cluster == l.clusters[i + 1]
      analysis == analyzeCluster(response)
      scored == [l EXCEPT !.results =
                   Append(@, ScoredResult(i, cluster, Len(l.allRawTexts), analysis))]
      shown == updateJobStatus(heap[j], j \in jobs, "processing",
                               Some(<<"analyzing", i + 1, n>>), None)
  IN /\ Suspended(j, "analyze")
     /\ Resume(j,
          IF ScorerThrows(analysis)
          THEN AnalyzeLoop(Task(heap[j],
                                [l EXCEPT !.results = Append(@, DefaultResult(i, cluster))],
                                pc[j], calls[j]))
          ELSE IF i < n - 1
          THEN Task(shown, scored, "delay", Append(calls[j], "delay"))
          ELSE AnalyzeLoop(Task(shown, scored, pc[j], calls[j])))

\* the one-second timer between two analysis calls
DelayReturn(j) ==
  /\ Suspended(j, "delay")
  /\ Resume(j, AnalyzeLoop(Current(j)))

\* calls that no timeout bounds: the XHS script, the clustering script, the
\* HTTP request of the analysis client
Unbounded(j) ==
  \/ pc[j] \in {"clusterVideos", "clusterComments", "analyze"}
  \/ pc[j] \in {"checkAvailability", "fetch"} /\ heap[j].dataSource = "xiaohongshu"

\* the awaited call never settles
NeverAnswers(j) ==
  /\ j \in Created /\ ~loc[j].hung /\ Unbounded(j)
  /\ loc' = [loc EXCEPT ![j].hung = TRUE]
  /\ UNCHANGED <<jobs, heap, pc, calls, cachedPythonCommand, now, probe>>

Tick ==
  /\ now < MaxTime
  /\ now' = now + 1
  /\ UNCHANGED <<jobs, heap, pc, loc, calls, cachedPythonCommand, probe>>

\* a cleanup that marks the expired jobs as failed before dropping them
cleanupMarksFailed(maxAge) ==
  /\ jobs' = {j \in jobs : ~(now - heap[j].startTime > maxAge)}
  /\ heap' = [j \in Created |->
               IF j \in jobs /\ now - heap[j].startTime > maxAge
               THEN [heap[j] EXCEPT !.status = "failed"] ELSE heap[j]]
  /\ UNCHANGED <<pc, loc, calls, cachedPythonCommand, now, probe>>

\* a cleanup that spares the jobs still in processing
cleanupFinishedOnly(maxAge) ==
  /\ jobs' = {j \in jobs : ~(now - heap[j].startTime > maxAge
                              /\ heap[j].status # "processing")}
  /\ UNCHANGED <<heap, pc, loc, calls, cachedPythonCommand, now, probe>>

cleanupExpiredJobs(maxAge) ==
  /\ jobs' = {j \in jobs : ~(now - heap[j].startTime > maxAge)}
  /\ UNCHANGED <<heap, pc, loc, calls, cachedPythonCommand, now, probe>>


\* the scraper outputs drawn when several jobs run side by side
FewVideoOutputs == { <<>>, <<Video(8, 0), Video(3, 0)>> }
FewCommentOutputs == { <<5, 6>> }
FewNoteTextOutputs == { <<1, 2>> }
FewKeywordLists == { <<1>> }
FewGLMResponses == { r \in GLMResponses : r.kind = "json" }

\* up to MaxJobs jobs side by side, the clock and the cleanup
Next ==
  \/ \E k \in FewKeywordLists, s \in DataSourceType, d \in BOOLEAN, f \in BOOLEAN :
        Cardinality(Created) < MaxJobs /\ CreateJob(k, s, d, f)
  \/ \E j \in Created, a \in BOOLEAN : CheckAvailabilityReturn(j, a)
  \/ \E j \in Created, v \in FewVideoOutputs, c \in FewCommentOutputs,
        x \in FewNoteTextOutputs : FetchReturn(j, v, c, x)
  \/ \E j \in Created, e \in ThrownValues : FetchThrows(j, e)
  \/ \E j \in Created :
        \E o \in ClusterOutcomes(OneClustering(videoTexts(loc[j]))) :
           ClusterVideosReturn(j, o)
  \/ \E j \in Created :
        \E o \in ClusterOutcomes(OneClustering(commentTexts(loc[j]))) :
           ClusterCommentsReturn(j, o)
  \/ \E j \in Created, r \in FewGLMResponses : AnalyzeReturn(j, r)
  \/ \E j \in Created : DelayReturn(j)
  \/ \E j \in Created : NeverAnswers(j)
  \/ Tick
  \/ \E maxAge \in 0..MaxTime : cleanupExpiredJobs(maxAge)

Spec == Init /\ [][Next]_vars

\* one job, every scraper output of the model
PipelineNext ==
  \/ \E k \in KeywordLists, s \in DataSourceType, d \in BOOLEAN, f \in BOOLEAN :
        Created = {} /\ CreateJob(k, s, d, f)
  \/ \E j \in Created, a \in BOOLEAN : CheckAvailabilityReturn(j, a)
  \/ \E j \in Created, v \in VideoOutputs, c \in CommentOutputs,
        x \in NoteTextOutputs : FetchReturn(j, v, c, x)
  \/ \E j \in Created, e \in ThrownValues : FetchThrows(j, e)
  \/ \E j \in Created :
        \E o \in ClusterOutcomes(ServiceClusterings(videoTexts(loc[j]))) :
           ClusterVideosReturn(j, o)
  \/ \E j \in Created :
        \E o \in ClusterOutcomes(ServiceClusterings(commentTexts(loc[j]))) :
           ClusterCommentsReturn(j, o)
  \/ \E j \in Created, r \in GLMResponses : AnalyzeReturn(j, r)
  \/ \E j \in Created : DelayReturn(j)
  \/ \E j \in Created : NeverAnswers(j)

PipelineSpec == Init /\ [][PipelineNext]_vars

(***************************************************************************)
(* In-process ClusteringService (word-overlap similarity).  A similarity   *)
(* is an integer number of SimilarityUnit-ths, which keeps every quotient  *)
(* of the texts of the model exact.                                        *)
(***************************************************************************)
SimilarityUnit == 100800

\* 0.7 * Jaccard + 0.3 * length similarity; 0 when a text has no word
calculateSimilarity(text1, text2) ==
  LET words1 == Tokens(text1)
      words2 == Tokens(text2)
      intersection == Cardinality(words1 \cap words2)
      union == Cardinality(words1 \cup words2)
      longer == Max(TextLen(text1), TextLen(text2))
      shorter == Min(TextLen(text1), TextLen(text2))
  IN IF words1 = {} \/ words2 = {} THEN 0
     ELSE (SimilarityUnit \div (10 * union * longer))
          * (7 * intersection * longer + 3 * shorter * union)

\* allSimilarities sorted ascending, element floor(length / 2), || 0.1
MedianSimilarity(texts) ==
  LET pairs == {<<i, j>> \in (1..Len(texts)) \X (1..Len(texts)) : i < j}
      at(q) == calculateSimilarity(texts[q[1]], texts[q[2]])
      k == Cardinality(pairs) \div 2
      median == IF pairs = {} THEN 0
                ELSE at(CHOOSE q \in pairs :
                          /\ Cardinality({r \in pairs : at(r) < at(q)}) <= k
                          /\ k < Cardinality({r \in pairs : at(r) <= at(q)}))
  IN IF median = 0 THEN SimilarityUnit \div 10 ELSE median

\* Math.max(0.15, Math.min(0.4, median * 1.2))
DynamicThreshold(texts) ==
  Max((15 * SimilarityUnit) \div 100,
      Min((4 * SimilarityUnit) \div 10, (6 * MedianSimilarity(texts)) \div 5))

\* the greedy pass from index i: an unassigned index opens a cluster and takes
\* the later unassigned indices whose similarity to it exceeds num / den
RECURSIVE GreedyClusters(_, _, _, _, _)
GreedyClusters(texts, num, den, i, assigned) ==
  IF i > Len(texts) THEN <<>>
  ELSE IF i \in assigned THEN GreedyClusters(texts, num, den, i + 1, assigned)
  ELSE LET taken == {j \in (i + 1)..Len(texts) :
                       /\ j \notin assigned
                       /\ den * calculateSimilarity(texts[i], texts[j]) > num}
       IN <<(<<i>> \o Ascending(taken))>>
          \o GreedyClusters(texts, num, den, i + 1, assigned \cup {i} \cup taken)

\* each orphan joins the valid cluster of the highest average similarity above
\* 0.8 * threshold, or becomes a cluster of its own
RECURSIVE AssignOrphans(_, _, _, _)
AssignOrphans(texts, threshold, orphanedIndices, validClusters) ==
  IF orphanedIndices = <<>> THEN validClusters
  ELSE LET orphanIndex == Head(orphanedIndices)
           RECURSIVE Total(_)
           Total(c) == IF c = <<>> THEN 0
                       ELSE (IF Head(c) = orphanIndex THEN SimilarityUnit
                             ELSE calculateSimilarity(texts[orphanIndex], texts[Head(c)]))
                            + Total(Tail(c))
           Better(a, b) ==
             Total(validClusters[a]) * Len(validClusters[b])
               > Total(validClusters[b]) * Len(validClusters[a])
           eligible == {k \in 1..Len(validClusters) :
                          /\ Total(validClusters[k]) > 0
                          /\ 5 * Total(validClusters[k])
                               > 4 * threshold * Len(validClusters[k])}
           best == CHOOSE k \in eligible :
                     \A m \in eligible : IF m < k THEN Better(k, m) ELSE ~Better(m, k)
       IN AssignOrphans(texts, threshold, Tail(orphanedIndices),
            IF eligible = {} THEN Append(validClusters, <<orphanIndex>>)
            ELSE [validClusters EXCEPT ![best] = Append(@, orphanIndex)])

\* the texts at the indices of each cluster
ClusterTextsOf(texts, clusters) ==
  [c \in 1..Len(clusters) |-> [m \in 1..Len(clusters[c]) |-> texts[clusters[c][m]]]]

clusterWithRelaxedCriteria(texts, num, den, minSize) ==
  LET clusters == SelectSeq(GreedyClusters(texts, num, den, 1, {}),
                            LAMBDA c : Len(c) >= minSize)
  IN IF Len(clusters) = 0 THEN <<texts>> ELSE ClusterTextsOf(texts, clusters)

\* clusterTexts of the in-process service
clusterTextsInProcess(texts, minClusterSize) ==
  IF Len(texts) = 0 THEN <<>>
  ELSE IF Len(texts) < minClusterSize THEN <<texts>>
  ELSE LET dynamicThreshold == DynamicThreshold(texts)
           clusters == GreedyClusters(texts, dynamicThreshold, 1, 1, {})
           kept == SelectSeq(clusters, LAMBDA c : Len(c) >= minClusterSize)
           orphanedIndices ==
             Flatten(SelectSeq(clusters, LAMBDA c : Len(c) < minClusterSize))
           validClusters == AssignOrphans(texts, dynamicThreshold, orphanedIndices, kept)
           relaxedMinSize == Max(1, (7 * minClusterSize) \div 10)
       IN IF Len(validClusters) = 0
          THEN IF 6 * dynamicThreshold > SimilarityUnit
               THEN clusterWithRelaxedCriteria(texts, 3 * dynamicThreshold, 5,
                                               relaxedMinSize)
               ELSE clusterWithRelaxedCriteria(texts, SimilarityUnit, 10, relaxedMinSize)
          ELSE ClusterTextsOf(texts, validClusters)

(***************************************************************************)
(* The clustering gateway called directly: any texts, any answer of the    *)
(* external script.                                                        *)
(***************************************************************************)
MaxTexts == 3

ProbeTexts == {1, 2, 3, 5, 7}

TextSeqs == UNION { [1..n -> ProbeTexts] : n \in 0..MaxTexts }

ClusterTextsCall(texts, outcome) ==
  /\ probe' = [ op |-> "clusterTexts", texts |-> texts, outcome |-> outcome,
                groups |-> clusterTexts(texts, MinClusterSize, outcome) ]
  /\ UNCHANGED <<jobs, heap, pc, loc, calls, cachedPythonCommand, now>>

ClusterTextsInProcessCall(texts) ==
  /\ probe' = [ op |-> "clusterTextsInProcess", texts |-> texts,
                outcome |-> [kind |-> "none", clusters |-> <<>>],
                groups |-> clusterTextsInProcess(texts, MinClusterSize) ]
  /\ UNCHANGED <<jobs, heap, pc, loc, calls, cachedPythonCommand, now>>

\* one call in a behaviour: the result of a call depends on no earlier call
ClusterNext ==
  \/ \E texts \in TextSeqs : \E o \in ClusterOutcomes(ServiceClusterings(texts)) :
        probe.op = "none" /\ ClusterTextsCall(texts, o)
  \/ \E texts \in TextSeqs :
        probe.op = "none" /\ ClusterTextsInProcessCall(texts)

ClusterSpec == Init /\ [][ClusterNext]_vars

(***************************************************************************)
(* The status route: the projection of a job a poller receives.            *)
(***************************************************************************)
GET(jobId) ==
  IF ~IsSet(getJob(jobId)) THEN [code |-> 404]
  ELSE LET job == Get(getJob(jobId))
           done == job.status = "completed" /\ IsSet(job.results)
       IN [ code |-> 200, jobId |-> job.jobId, status |-> job.status,
            progress |-> job.progress, keywords |-> job.keywords,
            results |-> IF done THEN job.results ELSE None,
            rawData |-> IF done THEN job.rawData ELSE None,
            error |-> IF job.status = "failed"
                      THEN (IF IsSet(job.error) THEN job.error ELSE Some("task failed"))
                      ELSE None ]

(***************************************************************************)
(* Job life-cycle properties.                                              *)
(***************************************************************************)

\* C1: a job's status changes only from "processing" to "completed" or to
\* "failed"; a terminal status never changes again, so it is written once.
C1_StatusTransitions ==
  [][\A j \in Created :
       heap'[j].status # heap[j].status =>
         /\ heap[j].status = "processing"
         /\ heap'[j].status \in {"completed", "failed"}]_vars

\* one job has completed and another has failed after issuing calls
C1_Witness ==
  \E j, k \in Created :
    /\ heap[j].status = "completed"
    /\ heap[k].status = "failed" /\ calls[k] # <<>>

\* C2: once a job's status is "completed" or "failed" no field of the job
\* is written again, whatever the other jobs, the clock and the cleanup do.
C2_FrozenAfterTerminal ==
  [][\A j \in Created :
       heap[j].status \in {"completed", "failed"} => heap'[j] = heap[j]]_vars

\* a completed job has been dropped from the table while another job runs
C2_Witness ==
  \E j, k \in Created :
    /\ heap[j].status = "completed" /\ j \notin jobs
    /\ heap[k].status = "processing" /\ pc[k] \in {"analyze", "delay"}

\* C3: when createJob returns, the new job is in the table with status
\* "processing", for every data source and every input.
C3_ProcessingAtReturn ==
  [][\A j \in JobIds :
       (j \notin Created /\ j \in Created') =>
         (j \in jobs' /\ heap'[j].status = "processing")]_vars

\* C4: results and dataQuality are set exactly when the status is
\* "completed", a completed job has at least one result, and the status
\* route hands out results only for a completed job.
C4_ResultsIffCompleted ==
  \A j \in Created :
    /\ IsSet(heap[j].results) <=> heap[j].status = "completed"
    /\ IsSet(heap[j].dataQuality) <=> heap[j].status = "completed"
    /\ heap[j].status = "completed" => Len(Get(heap[j].results)) >= 1
    /\ (GET(j).code = 200 /\ IsSet(GET(j).results)) =>
         (GET(j).status = "completed" /\ Len(Get(GET(j).results)) >= 1)

\* a poller receives the results of a completed job while another job is
\* in the middle of its analysis loop
C4_Witness ==
  \E j, k \in jobs :
    /\ GET(j).status = "completed" /\ Len(Get(GET(j).results)) >= 2
    /\ pc[k] = "delay" /\ Len(loc[k].results) >= 1 /\ ~IsSet(GET(k).results)

\* C5: when the text buffer is empty after every keyword was fetched, the
\* job fails with the no-data message and no clustering or analysis call has
\* been issued.
C5_EmptyBufferFails ==
  \A j \in Created :
    (IsSet(heap[j].rawData) /\ Get(heap[j].rawData).rawTexts = <<>>) =>
      /\ heap[j].status = "failed" /\ heap[j].error = Some("no data")
      /\ pc[j] = "done"
      /\ \A n \in 1..Len(calls[j]) :
           calls[j][n] \notin {"clusterTexts", "analyzeCluster"}

\* the fetches brought videos but no usable text, and the job has failed
C5_Witness ==
  \E j \in Created :
    /\ IsSet(heap[j].rawData)
    /\ Get(heap[j].rawData).rawTexts = <<>>
    /\ Len(Get(heap[j].rawData).videos) > 0
    /\ heap[j].status = "failed"

\* C6: an availability check that answers false fails the job before any
\* fetch is issued; a source without an availability check starts with a
\* fetch.
C6_UnavailableFailsBeforeFetch ==
  [][\A j \in Created :
       /\ (pc[j] = "checkAvailability" /\ CheckAvailabilityReturn(j, FALSE)) =>
            /\ heap'[j].status = "failed"
            /\ heap'[j].error = Some("source unavailable")
            /\ pc'[j] = "done"
            /\ calls'[j] = <<"checkAvailability">>
       /\ (~HasCheckAvailability(heap[j].dataSource) /\ calls[j] # <<>>) =>
            calls[j][1] \in {"searchAndFetch", "searchWithComments"}]_vars

\* an unavailable source has failed its job; the only call was the check
C6_Witness ==
  \E j \in Created :
    /\ heap[j].status = "failed" /\ heap[j].error = Some("source unavailable")
    /\ calls[j] = <<"checkAvailability">>

\* C7: a scraper call that throws for one keyword after earlier keywords
\* returned text degrades locally: the job does not fail.
C7_ScraperThrowDegrades ==
  [][\A j \in Created :
       (pc[j] = "fetch" /\ Len(loc[j].allRawTexts) > 0
          /\ \E e \in ThrownValues : FetchThrows(j, e)) =>
         heap'[j].status # "failed"]_vars

\* C8: a job whose source was available and whose fetches brought at least
\* one usable text, without accompanying video or comment records, completes
\* with at least one result.
C8_TextsWithoutRecordsComplete ==
  \A j \in Created :
    ( /\ pc[j] = "done" /\ IsSet(heap[j].rawData)
      /\ Len(Get(heap[j].rawData).rawTexts) >= 1
      /\ Get(heap[j].rawData).videos = <<>>
      /\ Get(heap[j].rawData).comments = <<>> ) =>
      /\ heap[j].status = "completed"
      /\ Len(Get(heap[j].results)) >= 1

\* C9: clusterTexts returns at least one group for every non-empty input
\* and every outcome of the external service.
C9_NonEmptyInputHasGroup ==
  (probe.op = "clusterTexts" /\ Len(probe.texts) >= 1) => Len(probe.groups) >= 1

\* C10: whatever the external clustering process does, a never-answering
\* process included, the awaited clustering call can return to the pipeline.
C10_ClusteringCallReturns ==
  \A j \in Created :
    pc[j] \in {"clusterVideos", "clusterComments"} =>
      ENABLED (\E k \in ClusterFailures :
                 \/ ClusterVideosReturn(j, [kind |-> k, clusters |-> <<>>])
                 \/ ClusterCommentsReturn(j, [kind |-> k, clusters |-> <<>>]))

(***************************************************************************)
(* The analysis client called directly with every answer of the service:   *)
(* failures, and JSON objects with fields missing, of a wrong type or out  *)
(* of range.                                                               *)
(***************************************************************************)
GivenSets ==
  { {}, TextFields } \cup { {f} : f \in TextFields }
  \cup { TextFields \ {f} : f \in TextFields }

ProbeResponses ==
  { [kind |-> "json", parsed |-> Parsed(paid, ei, ms, kr, sols, given)] :
      paid \in {"High", "Urgent", ""},
      ei \in {None, Some(40), Some(90)},
      ms \in {None, Some(0 - 10), Some(30), Some(80)},
      kr \in {None, Some(80), Some(150)},
      sols \in { Solutions("missing", <<>>), Solutions("array", <<"Notion">>),
                 Solutions("other", <<>>) },
      given \in GivenSets }
  \cup { [kind |-> k, parsed |-> NoParsed] :
           k \in {"transportError", "noChoices", "empty", "notJSON", "jsonNull"} }

AnalyzeClusterCall(response) ==
  /\ probe' = [ op |-> "analyzeCluster", response |-> response,
                payload |-> analyzeCluster(response) ]
  /\ UNCHANGED <<jobs, heap, pc, loc, calls, cachedPythonCommand, now>>

AnalysisNext ==
  \E response \in ProbeResponses : probe.op = "none" /\ AnalyzeClusterCall(response)

AnalysisSpec == Init /\ [][AnalysisNext]_vars

(***************************************************************************)
(* The priority scorer called on its own: scoreCluster and each of its     *)
(* four methods, with sizes that include 0 and scores in tenths that       *)
(* include values above 5.                                                 *)
(***************************************************************************)
ClusterSizes == {0, 1, 3, 60}
TotalSizes == {0, 3, 50, 100, 200}
EmotionalIntensities == {0, 20, 50, 90}
GlmMarketScores == {0, 25, 50, 100}
SolutionLists ==
  { <<>>, <<"needs research">>, <<"Notion">>, <<"Notion", "parse failed">>,
    <<"Notion", "Obsidian">>, <<"Notion", "Obsidian", "Evernote">>,
    <<"Notion", "Obsidian", "Evernote", "Roam">> }
SubScores == 0..50 \cup {100}

CalculateDemandIntensityCall(clusterSize, totalSize, emotionalIntensity) ==
  /\ probe' = [ op |-> "calculateDemandIntensity",
                clusterSize |-> clusterSize, totalSize |-> totalSize,
                emotionalIntensity |-> emotionalIntensity,
                value |-> calculateDemandIntensity(clusterSize, totalSize,
                                                   emotionalIntensity) ]
  /\ UNCHANGED <<jobs, heap, pc, loc, calls, cachedPythonCommand, now>>

CalculateMarketSizeCall(clusterSize, totalDataSize, glmMarketScore) ==
  /\ probe' = [ op |-> "calculateMarketSize",
                clusterSize |-> clusterSize, totalDataSize |-> totalDataSize,
                glmMarketScore |-> glmMarketScore,
                value |-> calculateMarketSize(clusterSize, totalDataSize,
                                              glmMarketScore) ]
  /\ UNCHANGED <<jobs, heap, pc, loc, calls, cachedPythonCommand, now>>

CalculateCompetitionCall(existingSolutions) ==
  /\ probe' = [ op |-> "calculateCompetition",
                existingSolutions |-> existingSolutions,
                value |-> calculateCompetition(existingSolutions) ]
  /\ UNCHANGED <<jobs, heap, pc, loc, calls, cachedPythonCommand, now>>

CalculatePriorityCall(demandIntensity, marketSize, competition) ==
  /\ probe' = [ op |-> "calculatePriority",
                demandIntensity |-> demandIntensity, marketSize |-> marketSize,
                competition |-> competition,
                score |-> calculatePriority(demandIntensity, marketSize, competition) ]
  /\ UNCHANGED <<jobs, heap, pc, loc, calls, cachedPythonCommand, now>>

ScoreClusterCall(clusterSize, totalDataSize, emotionalIntensity, glmMarketScore, existingSolutions) ==
  /\ probe' = [ op |-> "scoreCluster",
                clusterSize |-> clusterSize, totalDataSize |-> totalDataSize,
                emotionalIntensity |-> emotionalIntensity,
                glmMarketScore |-> glmMarketScore,
                existingSolutions |-> existingSolutions,
                score |-> scoreCluster(clusterSize, totalDataSize, emotionalIntensity,
                                       glmMarketScore, existingSolutions) ]
  /\ UNCHANGED <<jobs, heap, pc, loc, calls, cachedPythonCommand, now>>

ScorerNext ==
  \/ \E clusterSize \in ClusterSizes, totalSize \in TotalSizes,
        emotionalIntensity \in EmotionalIntensities :
       probe.op = "none"
       /\ CalculateDemandIntensityCall(clusterSize, totalSize, emotionalIntensity)
  \/ \E clusterSize \in ClusterSizes, totalDataSize \in TotalSizes,
        glmMarketScore \in GlmMarketScores :
       probe.op = "none"
       /\ CalculateMarketSizeCall(clusterSize, totalDataSize, glmMarketScore)
  \/ \E existingSolutions \in SolutionLists :
       probe.op = "none" /\ CalculateCompetitionCall(existingSolutions)
  \/ \E demandIntensity \in 30..40, marketSize \in 30..40, competition \in SubScores :
       probe.op = "none"
       /\ CalculatePriorityCall(demandIntensity, marketSize, competition)
  \/ \E clusterSize \in ClusterSizes, totalDataSize \in TotalSizes,
        emotionalIntensity \in EmotionalIntensities,
        glmMarketScore \in GlmMarketScores, existingSolutions \in SolutionLists :
       probe.op = "none"
       /\ ScoreClusterCall(clusterSize, totalDataSize, emotionalIntensity,
                           glmMarketScore, existingSolutions)

ScorerSpec == Init /\ [][ScorerNext]_vars

(***************************************************************************)
(* getRepresentativeTexts called directly: clusters with repeated texts    *)
(* and texts of equal score, counts from 0.                                *)
(***************************************************************************)
RepresentativeTexts == {1, 2, 5, 6, 7}
RepresentativeClusters ==
  UNION { [1..n -> RepresentativeTexts] : n \in 0..(MaxTexts + 1) }

GetRepresentativeTextsCall(cluster, maxCount) ==
  /\ probe' = [ op |-> "getRepresentativeTexts", cluster |-> cluster,
                maxCount |-> maxCount,
                texts |-> getRepresentativeTexts(cluster, maxCount) ]
  /\ UNCHANGED <<jobs, heap, pc, loc, calls, cachedPythonCommand, now>>

RepresentativeNext ==
  \E cluster \in RepresentativeClusters, maxCount \in 0..MaxTexts :
     probe.op = "none" /\ GetRepresentativeTextsCall(cluster, maxCount)

RepresentativeSpec == Init /\ [][RepresentativeNext]_vars

(***************************************************************************)
(* Step 5 of executeJob on its own: the data quality record for sample     *)
(* sizes around the two steps and for result lists of mixed sizes.         *)
(***************************************************************************)
SampleSizes == {0, 1, 49, 50, 51, 199, 200, 201, 1000}
ResultSizes == {1, 2, 4, 60}
MaxResults == 3
ResultLists == UNION { [1..n -> [size : ResultSizes]] : n \in 0..MaxResults }

DataQualityCall(totalDataSize, results) ==
  /\ probe' = [ op |-> "dataQuality", totalDataSize |-> totalDataSize,
                results |-> results,
                dataQuality |-> dataQuality(totalDataSize, results) ]
  /\ UNCHANGED <<jobs, heap, pc, loc, calls, cachedPythonCommand, now>>

QualityNext ==
  \E totalDataSize \in SampleSizes, results \in ResultLists :
     probe.op = "none" /\ DataQualityCall(totalDataSize, results)

QualitySpec == Init /\ [][QualityNext]_vars

(***************************************************************************)
(* Properties of the clustering gateway.                                   *)
(***************************************************************************)
Occurrences(x, s) == Cardinality({i \in 1..Len(s) : s[i] = x})

\* the call fell back on the keyword buckets
KeywordFallback ==
  /\ probe.op = "clusterTexts"
  /\ probe.outcome.kind # "ok" \/ probe.outcome.clusters = <<>>
  /\ Len(probe.texts) >= MinClusterSize

C12_GroupsReachMinimum ==
  (KeywordFallback \/ probe.op = "clusterTextsInProcess") =>
    \/ probe.groups = <<probe.texts>>
    \/ \A g \in 1..Len(probe.groups) : Len(probe.groups[g]) >= MinClusterSize

(***************************************************************************)
(* Properties of the clustering and analysis steps of a job.               *)
(***************************************************************************)
NumberOf(call, j) == Cardinality({n \in 1..Len(calls[j]) : calls[j][n] = call})

SortKey(r) == IF IsSet(r.priority_score) THEN Get(r.priority_score).overall ELSE 0

\* C14: the results of a completed job are in non-increasing order of
\* overall, a result without a score counting as 0, and results of equal
\* overall are in the order of their clusters.
C14_ResultsSortedStable ==
  \A j \in Created :
    heap[j].status = "completed" =>
      LET results == Get(heap[j].results)
      IN \A a, b \in 1..Len(results) :
           a < b =>
             /\ SortKey(results[a]) >= SortKey(results[b])
             /\ SortKey(results[a]) = SortKey(results[b]) =>
                  results[a].id < results[b].id

\* a completed job whose results were reordered by the sort, with two results
\* of equal overall and a result without a score
C14_Witness ==
  \E j \in Created :
    /\ heap[j].status = "completed"
    /\ LET results == Get(heap[j].results)
       IN /\ \E a, b \in 1..Len(results) : a < b /\ results[a].id > results[b].id
          /\ \E a, b \in 1..Len(results) :
               a < b /\ SortKey(results[a]) = SortKey(results[b])
          /\ \E a \in 1..Len(results) : ~IsSet(results[a].priority_score)

\* C15: every cluster contributes exactly one result.  While the clusters are
\* analysed the k-th result has id k (cluster-k) and the size of the k-th
\* cluster; on a completed job there are as many results as clusters and for
\* each cluster exactly one result with its id and its size.
C15_OneResultPerCluster ==
  \A j \in Created :
    /\ pc[j] \in {"analyze", "delay"} =>
         /\ Len(loc[j].results) <= Len(loc[j].clusters)
         /\ \A k \in 1..Len(loc[j].results) :
              /\ loc[j].results[k].id = k
              /\ loc[j].results[k].size = Len(loc[j].clusters[k])
    /\ heap[j].status = "completed" =>
         LET results == Get(heap[j].results)
             groups == Get(heap[j].clusteredData)
         IN /\ Len(results) = Len(groups)
            /\ \A i \in 1..Len(groups) :
                 /\ Cardinality({k \in 1..Len(results) : results[k].id = i}) = 1
                 /\ \A k \in 1..Len(results) :
                      results[k].id = i => results[k].size = groups[i].size

\* a completed job with results of a parsed answer, of an answer that was not
\* JSON, of a failed call and of a scoring exception
C15_Witness ==
  \E j \in Created :
    /\ heap[j].status = "completed"
    /\ LET results == Get(heap[j].results)
           Names(r) == IF IsSet(r.analysis.deep)
                       THEN Get(r.analysis.deep).existing_solutions.names
                       ELSE <<"none">>
       IN /\ Len(results) = 4
          /\ \E k \in 1..4 : Names(results[k]) = <<"Notion">>
          /\ \E k \in 1..4 : Names(results[k]) = <<"parse failed">>
          /\ \E k \in 1..4 : Names(results[k]) = <<"API call failed">>
          /\ \E k \in 1..4 : ~IsSet(results[k].priority_score)

\* C18: a job never issues two deep-analysis calls without the delay between
\* them, and no delay follows the analysis of the last cluster.
C18_DelayBetweenAnalysisCalls ==
  \A j \in Created :
    /\ \A n \in 1..(Len(calls[j]) - 1) :
         ~(calls[j][n] = "analyzeCluster" /\ calls[j][n + 1] = "analyzeCluster")
    /\ heap[j].status = "completed" => calls[j][Len(calls[j])] # "delay"

(***************************************************************************)
(* Properties of the analysis client.                                      *)
(***************************************************************************)

\* C16: for every answer of the service (transport failure, empty message,
\* text that is not JSON, JSON with fields missing) analyzeCluster returns a
\* payload in which every field of the schema is populated.
C16_PayloadFullyPopulated ==
  probe.op = "analyzeCluster" =>
    LET payload == probe.payload
    IN /\ DOMAIN payload.text = TextFields
       /\ \A f \in TextFields : payload.text[f] \in {"answer", "placeholder"}
       /\ payload.paid_interest # ""
       /\ payload.existing_solutions.kind # "missing"
       /\ payload.emotional_intensity \in Int
       /\ payload.market_size_score \in Int
       /\ payload.keyword_relevance \in Int

\* a JSON answer that holds one text field and no number was completed
C16_Witness ==
  /\ probe.op = "analyzeCluster"
  /\ probe.response.kind = "json"
  /\ probe.response.parsed.given = {"rationale"}
  /\ ~IsSet(probe.response.parsed.emotional_intensity)
  /\ probe.response.parsed.existing_solutions.kind = "missing"
  /\ probe.payload.text["rationale"] = "answer"
  /\ probe.payload.text["one_line_pain"] = "placeholder"
  /\ probe.payload.existing_solutions.names = <<"needs research">>

\* C17: in every payload of analyzeCluster paid_interest is High, Medium or
\* Low, emotional_intensity and market_size_score are within [0, 5],
\* keyword_relevance is within [0, 100] and existing_solutions is a list of
\* {name, limitation} entries.
C17_PayloadFieldsInRange ==
  probe.op = "analyzeCluster" =>
    /\ probe.payload.paid_interest \in {"High", "Medium", "Low"}
    /\ probe.payload.emotional_intensity \in 0..50
    /\ probe.payload.market_size_score \in 0..50
    /\ probe.payload.keyword_relevance \in 0..100
    /\ probe.payload.existing_solutions.kind = "array"

(***************************************************************************)
(* Properties of the priority scorer.                                      *)
(***************************************************************************)
InRange(x) == x # NaN /\ x >= 0 /\ x <= 50

\* C19: for non-negative inputs, a total size of 0 included, every numeric
\* field of the score of scoreCluster and every value returned by
\* calculateDemandIntensity, calculateMarketSize, calculateCompetition and
\* calculatePriority is a number within [0, 5].
C19_ScoresWithinRange ==
  /\ probe.op \in {"calculateDemandIntensity", "calculateMarketSize",
                    "calculateCompetition"} => InRange(probe.value)
  /\ probe.op \in {"calculatePriority", "scoreCluster"} =>
       /\ InRange(probe.score.demand_intensity)
       /\ InRange(probe.score.market_size)
       /\ InRange(probe.score.competition)
       /\ InRange(probe.score.overall)

\* C20: for sub-scores in tenths within [0, 5] the overall of
\* calculatePriority is 0.4 d + 0.3 m + 0.3 c rounded to one decimal, and
\* the level follows from that reported overall: High from 3.5, Medium from
\* 2.5 and below 3.5, Low otherwise.
C20_LevelFollowsReportedOverall ==
  (/\ probe.op = "calculatePriority"
   /\ InRange(probe.demandIntensity) /\ InRange(probe.marketSize)
   /\ InRange(probe.competition)) =>
    LET score == probe.score
    IN /\ score.overall =
            RoundDiv(4 * probe.demandIntensity + 3 * probe.marketSize
                       + 3 * probe.competition, 10)
       /\ score.level = "High" <=> score.overall >= 35
       /\ score.level = "Medium" <=> (score.overall >= 25 /\ score.overall < 35)
       /\ score.level = "Low" <=> score.overall < 25

(***************************************************************************)
(* Properties of the data quality record.                                  *)
(***************************************************************************)

\* C21: the quality level is exploratory below 50 texts, preliminary from 50
\* to 199 and reliable from 200, whatever the results; clusterCount is the
\* number of results and averageClusterSize is the mean of their sizes
\* rounded to the nearest integer (half up), 0 when there is no result.
C21_QualityIsStepFunction ==
  probe.op = "dataQuality" =>
    LET q == probe.dataQuality
        n == Len(probe.results)
        total == SumOfSizes(probe.results)
    IN /\ q.totalDataSize = probe.totalDataSize
       /\ q.level = "exploratory" <=> probe.totalDataSize < 50
       /\ q.level = "preliminary" <=>
            (probe.totalDataSize >= 50 /\ probe.totalDataSize <= 199)
       /\ q.level = "reliable" <=> probe.totalDataSize >= 200
       /\ q.clusterCount = n
       /\ n = 0 => q.averageClusterSize = 0
       /\ n > 0 => /\ 2 * n * q.averageClusterSize <= 2 * total + n
                   /\ 2 * n * q.averageClusterSize > 2 * total - n

\* 50 texts are preliminary and a mean of 1.5 is reported as 2
C21_Witness ==
  /\ probe.op = "dataQuality"
  /\ probe.totalDataSize = 50
  /\ probe.dataQuality.level = "preliminary"
  /\ Len(probe.results) = 2 /\ SumOfSizes(probe.results) = 3
  /\ probe.dataQuality.averageClusterSize = 2

(***************************************************************************)
(* Properties of the representative texts.                                 *)
(***************************************************************************)

\* C22: getRepresentativeTexts(c, n) returns at most min(len(c), n) texts,
\* each a text of c and none more often than it occurs in c; a cluster of at
\* most n texts is returned unchanged, a longer one gives n texts in
\* descending order of score, none of which scores less than a text left out.
C22_RepresentativesBounded ==
  probe.op = "getRepresentativeTexts" =>
    LET c == probe.cluster
        n == probe.maxCount
        r == probe.texts
        score(x) == calculateRepresentativeness(x)
    IN /\ Len(r) <= Min(Len(c), n)
       /\ \A x \in Range(r) : Occurrences(x, r) <= Occurrences(x, c)
       /\ Len(c) <= n => r = c
       /\ Len(c) > n =>
            /\ Len(r) = n
            /\ \A a, b \in 1..Len(r) : a < b => score(r[a]) >= score(r[b])
            /\ \A a \in 1..Len(r) : \A x \in Range(c) :
                 Occurrences(x, c) > Occurrences(x, r) => score(x) <= score(r[a])

\* a cluster of four texts, one of them twice, was cut to its three best,
\* which are not its first three
C22_Witness ==
  /\ probe.op = "getRepresentativeTexts"
  /\ probe.cluster = <<5, 1, 6, 1>>
  /\ probe.maxCount = 3
  /\ probe.texts = <<1, 1, 6>>

(***************************************************************************)
(* Properties of jobs running side by side.                                *)
(***************************************************************************)

\* the step leaves the record and the task of job j as they are
SameJob(j) ==
  /\ heap'[j] = heap[j] /\ loc'[j] = loc[j]
  /\ pc'[j] = pc[j] /\ calls'[j] = calls[j]

C24_TableMembership ==
  [][ /\ jobs' # jobs =>
           \/ /\ \E j \in Created' \ Created : jobs' = jobs \cup {j}
              /\ \A k \in Created : SameJob(k)
           \/ /\ \E maxAge \in 0..MaxTime :
                   jobs' = {j \in jobs : now - heap[j].startTime <= maxAge}
              /\ UNCHANGED <<heap, pc, loc, calls, now>>
      /\ (\E j \in Created : ~SameJob(j)) => jobs' = jobs
      /\ \A j \in Created \ jobs : j \notin jobs' /\ getJob(j)' = None ]_vars

\* a job was removed from the table while its task was fetching; the task
\* went on to the analysis, its progress text is no longer updated and the
\* job is not found
C24_Witness ==
  \E j \in Created :
    /\ j \notin jobs /\ getJob(j) = None
    /\ pc[j] \in {"analyze", "delay"}
    /\ heap[j].progress[1] \in {"fetching", "deep fetching"}
    /\ \E k \in jobs : heap[k].status = "processing"

(***************************************************************************)
(* Properties of the external calls of a job.                              *)
(***************************************************************************)

\* C25: a job that waits for a scraper process or for the clustering
\* process can always be resumed, by the answer of the process or by the
\* failure its timeout raises, so no subprocess keeps it in processing.
C25_SubprocessCallsBounded ==
  \A j \in Created :
    /\ pc[j] = "checkAvailability" => ENABLED CheckAvailabilityReturn(j, FALSE)
    /\ pc[j] = "fetch" => ENABLED (\E e \in ThrownValues : FetchThrows(j, e))
    /\ pc[j] = "clusterVideos" =>
         ENABLED ClusterVideosReturn(j, [kind |-> "exitNonZero", clusters |-> <<>>])
    /\ pc[j] = "clusterComments" =>
         ENABLED ClusterCommentsReturn(j, [kind |-> "exitNonZero", clusters |-> <<>>])

\* the stage of executeJob a call belongs to
Stage(call) ==
  CASE call = "checkAvailability" -> 1
    [] call \in {"searchAndFetch", "searchWithComments"} -> 2
    [] call = "clusterTexts" -> 3
    [] call \in {"analyzeCluster", "delay"} -> 4

\* the position of a task that waits for the given call
WaitsAt(call) ==
  CASE call = "checkAvailability" -> {"checkAvailability"}
    [] call \in {"searchAndFetch", "searchWithComments"} -> {"fetch"}
    [] call = "clusterTexts" -> {"clusterVideos", "clusterComments"}
    [] call = "analyzeCluster" -> {"analyze"}
    [] call = "delay" -> {"delay"}

\* C26: the calls of a job are issued in the order availability check (iff
\* the source has one), one fetch per keyword in the order of the keyword
\* list, at most one clustering call for the videos and one for the
\* comments, one analysis call per cluster in the order of the cluster list;
\* a running task waits for exactly the last call it issued, so a call is
\* issued only after the one before it has returned.
C26_CallsInStageOrder ==
  \A j \in Created :
    LET c == calls[j]
        fetches == NumberOf("searchAndFetch", j) + NumberOf("searchWithComments", j)
    IN /\ \A a, b \in 1..Len(c) : a < b => Stage(c[a]) <= Stage(c[b])
       /\ \A a \in 1..Len(c) :
            c[a] = "checkAvailability" =>
              a = 1 /\ HasCheckAvailability(heap[j].dataSource)
       /\ (c # <<>> /\ HasCheckAvailability(heap[j].dataSource)) =>
            c[1] = "checkAvailability"
       /\ fetches <= Len(heap[j].keywords)
       /\ (\E a \in 1..Len(c) : Stage(c[a]) > 2) => fetches = Len(heap[j].keywords)
       /\ NumberOf("clusterTexts", j) <= 2
       /\ pc[j] = "done" \/ (c # <<>> /\ pc[j] \in WaitsAt(c[Len(c)]))
       /\ pc[j] = "fetch" =>
            /\ fetches = loc[j].i + 1
            /\ heap[j].progress[2] = heap[j].keywords[fetches]
       /\ pc[j] = "clusterComments" =>
            NumberOf("clusterTexts", j) = 1 + (IF videoTexts(loc[j]) # <<>> THEN 1 ELSE 0)
       /\ pc[j] = "analyze" =>
            /\ NumberOf("analyzeCluster", j) = Len(loc[j].results) + 1
            /\ NumberOf("analyzeCluster", j) <= Len(loc[j].clusters)

\* a job of two keywords has issued its availability check, both fetches,
\* both clustering calls and is at its second analysis call
C26_Witness ==
  \E j \in Created :
    calls[j] = << "checkAvailability", "searchWithComments", "searchWithComments",
                  "clusterTexts", "clusterTexts", "analyzeCluster", "delay",
                  "analyzeCluster" >>

(***************************************************************************)
(* Properties of the failure record.                                       *)
(***************************************************************************)

\* C27: a job whose status is failed has a non-empty error message on its
\* record, whatever was thrown (an Error with a message, an Error with an
\* empty message, a value that is no Error), and a job whose status is not
\* failed has no error message.
C27_FailedHasErrorMessage ==
  \A j \in Created :
    IF heap[j].status = "failed"
    THEN IsSet(heap[j].error) /\ Get(heap[j].error) # ""
    ELSE ~IsSet(heap[j].error)

(***************************************************************************)
(* Properties of the clustering input.                                     *)
(***************************************************************************)

\* C28: every text of the input of a clustering call of a job is trimmed,
\* longer than 5 characters, occurs once in that input and is a text of the
\* job's normalized raw text buffer.
C28_ClusteringInputNormalized ==
  \A j \in Created :
    LET input == IF pc[j] = "clusterVideos" THEN videoTexts(loc[j])
                 ELSE IF pc[j] = "clusterComments" THEN commentTexts(loc[j])
                 ELSE <<>>
    IN \A i \in 1..Len(input) :
         /\ Trim(input[i]) = input[i]
         /\ TextLen(input[i]) > 5
         /\ Occurrences(input[i], input) = 1
         /\ input[i] \in Range(loc[j].allRawTexts)

(***************************************************************************)
(* Properties of the sizes handed to the scorer.                           *)
(***************************************************************************)

\* C29: the sizes of the results of a completed job sum to at most the
\* totalDataSize of its data quality record, and every cluster that was
\* scored is at most as large as the total data size passed to the scorer
\* with it.
C29_ClusterShareAtMostOne ==
  \A j \in Created :
    /\ heap[j].status = "completed" =>
         SumOfSizes(Get(heap[j].results)) <= Get(heap[j].dataQuality).totalDataSize
    /\ pc[j] \in {"analyze", "delay"} =>
         \A k \in 1..Len(loc[j].results) :
           IsSet(loc[j].results[k].priority_score) =>
             loc[j].results[k].size <= Len(loc[j].allRawTexts)

\* C30: the scorer is called with the emotional intensity and the market
\* size score the analysis payload reports, a reported 0 included: the score
\* of every scored result is the score of its cluster for the values of its
\* payload.
C30_ReportedZeroIsScored ==
  \A j \in Created :
    pc[j] \in {"analyze", "delay"} =>
      \A k \in 1..Len(loc[j].results) :
        LET result == loc[j].results[k]
            analysis == Get(result.analysis.deep)
        IN IsSet(result.priority_score) =>
             Get(result.priority_score) =
               scoreCluster(result.size, Len(loc[j].allRawTexts),
                            analysis.emotional_intensity, analysis.market_size_score,
                            analysis.existing_solutions.names)

====
